---------------------------- MODULE Spec2Model ----------------------------
(***************************************************************************)
(* wincleaner (src/main.rs): the task-execution engine.                    *)
(*                                                                         *)
(* Strings are TLA+ strings (TLC evaluates Len, \o and SubSeq on them).    *)
(* The source's Chinese literals cannot be written in a TLA+ string; each  *)
(* is given an ASCII stand-in, defined once below next to the source line  *)
(* that holds the literal.  Option<T> is a sequence: <<>> is None and      *)
(* <<x>> is Some(x).                                                       *)
(***************************************************************************)
EXTENDS Integers, Sequences, FiniteSets, TLC

(***************************************************************************)
(* Bounds of the model.                                                    *)
(***************************************************************************)
\* concurrently live async tasks (spawn) the modelled user ever creates
MaxProcs == 2
\* async tasks (single runs and batches) started by a user who clicks one task
MaxRuns == 2
\* async tasks started by a user who clicks several tasks
MaxRunsMany == 1
\* largest directory size (bytes) the modelled file system holds
MaxSize == 2
\* largest number of chunks an input command of the filter check is made of
MaxParts == 3

(***************************************************************************)
(* String helpers: str::contains, str::starts_with, str::replace.          *)
(***************************************************************************)
None == <<>>

Some(x) == <<x>>

IsSome(o) == Len(o) = 1

Unwrap(o) == o[1]

\* str::contains: p occurs somewhere in s.  (An operator's argument is an
\* expression, evaluated at each use; a quantifier over the set of one
\* element binds its value.)
Contains(s, p) ==
    \E str \in {s}, pat \in {p} :
        \E i \in 1..(Len(str) - Len(pat) + 1) : SubSeq(str, i, i + Len(pat) - 1) = pat

\* str::starts_with
StartsWith(s, p) == \E str \in {s} : Len(str) >= Len(p) /\ SubSeq(str, 1, Len(p)) = p

\* the places where p occurs in s
Matches(s, p) ==
    UNION { { i \in 1..(Len(str) - Len(p) + 1) : SubSeq(str, i, i + Len(p) - 1) = p } :
              str \in {s} }

RECURSIVE Replace(_, _, _)
\* str::replace: every non-overlapping match of `from`, left to right, is
\* replaced by `to`; the text put in is not scanned again.
Replace(s, from, to) ==
    CHOOSE out \in
        { IF m = {} THEN str
          ELSE LET i == CHOOSE a \in m : \A b \in m : a <= b
               IN  SubSeq(str, 1, i - 1) \o to
                       \o Replace(SubSeq(str, i + Len(from), Len(str)), from, to) :
            str \in {s}, m \in {Matches(s, from)} } : TRUE

RECURSIVE Join(_)
\* concatenation of a sequence of strings
Join(parts) == IF parts = <<>> THEN "" ELSE Head(parts) \o Join(Tail(parts))

(***************************************************************************)
(* expand_environment_variables: the ten placeholders, in the order of the *)
(* env_vars array; an unset variable reads as "" (unwrap_or_default).      *)
(***************************************************************************)
env_vars ==
    << "USERPROFILE", "APPDATA", "LOCALAPPDATA", "TEMP", "TMP", "PROGRAMFILES",
       "PROGRAMFILES(X86)", "SYSTEMDRIVE", "WINDIR", "PUBLIC" >>

\* std::env::var(name).unwrap_or_default() in environment e (a function from
\* the names that are set to their values)
EnvVar(e, name) == IF name \in DOMAIN e THEN e[name] ELSE ""

RECURSIVE ExpandLoop(_, _, _)
\* for var in &env_vars { result = result.replace(&format!("%{}%", var), &value) }
\* (r is bound to the string of each pass, so that it is computed once)
ExpandLoop(result, e, k) ==
    IF k > Len(env_vars) THEN result
    ELSE CHOOSE out \in
             { ExpandLoop(r, e, k + 1) :
                 r \in { Replace(result, "%" \o env_vars[k] \o "%", EnvVar(e, env_vars[k])) } } :
             TRUE

expand_environment_variables(path, e) ==
    IF ~Contains(path, "%") THEN path ELSE ExpandLoop(path, e, 1)


(***************************************************************************)
(* CleanTask and the built-in list of app().  The description and the icon *)
(* (display text, Chinese and emoji) are left out: no operation reads them.*)
(***************************************************************************)
CleanTask(name, category, command, path_check, requires_confirmation, dangerous, estimated_size) ==
    [ name |-> name, category |-> category, command |-> command,
      path_check |-> path_check, requires_confirmation |-> requires_confirmation,
      dangerous |-> dangerous, estimated_size |-> estimated_size ]

tasks ==
    << CleanTask("Go Module Cache", "DevTools", "go clean -modcache",
                 None, FALSE, FALSE, Some("~500MB")),
       CleanTask("Gradle Cache", "DevTools",
                 "rmdir /s /q %USERPROFILE%\\.gradle\\caches",
                 Some("%USERPROFILE%\\.gradle\\caches"), FALSE, FALSE, Some("auto")),
       CleanTask("Cargo Cache", "DevTools", "cargo cache --remove-dir all",
                 None, FALSE, FALSE, Some("~2GB")),
       CleanTask("npm Cache", "DevTools", "npm cache clean --force",
                 None, FALSE, FALSE, Some("~200MB")),
       CleanTask("Trae AI Chat Logs", "AppCache",
                 "rmdir /s /q %USERPROFILE%\\.marscode\\ai-chat\\logs",
                 Some("%USERPROFILE%\\.marscode\\ai-chat\\logs"), TRUE, FALSE,
                 Some("auto")),
       CleanTask("KuGou Image Cache", "AppCache",
                 "rmdir /s /q %USERPROFILE%\\AppData\\Roaming\\KuGou8\\ImagesCache",
                 Some("%USERPROFILE%\\AppData\\Roaming\\KuGou8\\ImagesCache"),
                 FALSE, FALSE, Some("auto")),
       CleanTask("VSCode Cpptools Cache", "AppCache",
                 "rmdir /s /q %LocalAppData%\\Microsoft\\vscode-cpptools",
                 Some("%LocalAppData%\\Microsoft\\vscode-cpptools"), FALSE, FALSE,
                 Some("auto")),
       CleanTask("Office Updates", "AppCache",
                 "rmdir /s /q \"C:\\Program Files (x86)\\Microsoft Office\\Updates\"",
                 Some("C:\\Program Files (x86)\\Microsoft Office\\Updates"), TRUE, TRUE,
                 Some("auto")),
       CleanTask("Gradle Wrapper Dists", "DevTools",
                 "rmdir /s /q %USERPROFILE%\\.gradle\\wrapper\\dists",
                 Some("%USERPROFILE%\\.gradle\\wrapper\\dists"), FALSE, FALSE,
                 Some("auto")),
       CleanTask("QQ MiniApp", "AppCache",
                 "rmdir /s /q %USERPROFILE%\\AppData\\Roaming\\QQ\\miniapp",
                 Some("%USERPROFILE%\\AppData\\Roaming\\QQ\\miniapp"), TRUE, TRUE,
                 Some("auto")),
       CleanTask("System Component Cleanup", "System",
                 "Dism.exe /online /Cleanup-Image /StartComponentCleanup /ResetBase",
                 None, TRUE, TRUE, Some("~1-3GB")),
       CleanTask("Disk Cleanup", "System", "cleanmgr", None, FALSE, FALSE,
                 Some("~variable")),
       CleanTask("Clear Recycle Bin", "System", "powershell Clear-RecycleBin -Force",
                 None, TRUE, FALSE, Some("~variable")) >>

\* all_tasks_clone.iter().find(|t| t.name == task_name): the first task of the
\* list with that name, or None
Find(list, task_name) ==
    LET hits == { k \in 1..Len(list) : list[k].name = task_name }
    IN  IF hits = {} THEN None
        ELSE Some(list[CHOOSE k \in hits : \A m \in hits : k <= m])

(***************************************************************************)
(* The file system as the program reads it.  A node is what Path::exists,  *)
(* Path::is_dir, fs::read_dir and the recursive size sum observe of one    *)
(* path: missing, a regular file, a directory whose read_dir yields no     *)
(* entry, a directory that read_dir cannot open (or whose traversal fails),*)
(* a directory with entries and the byte total of its files.               *)
(***************************************************************************)
Missing == [kind |-> "missing", size |-> 0]

RegularFile == [kind |-> "file", size |-> 0]

EmptyDir == [kind |-> "dir_empty", size |-> 0]

UnreadableDir == [kind |-> "dir_unreadable", size |-> 0]

FullDir(size) == [kind |-> "dir_full", size |-> size]

Nodes == {Missing, RegularFile, EmptyDir, UnreadableDir} \cup {FullDir(s) : s \in 1..MaxSize}

\* exists as it would be if every path were taken to exist
ExistsAlways(node) == TRUE

\* the node at path p of file system f (a function from the paths that the
\* model tracks to their nodes); every other path is missing
NodeAt(f, p) == IF p \in DOMAIN f THEN f[p] ELSE Missing

exists(node) == node.kind # "missing"

is_dir(node) == node.kind \in {"dir_empty", "dir_unreadable", "dir_full"}

\* fs::read_dir(path) is Ok
read_dir_ok(node) == node.kind \in {"dir_empty", "dir_full"}

\* entries.count() of an opened directory
entry_count(node) == IF node.kind = "dir_full" THEN 1 ELSE 0

\* dir_size: Ok(0) for a path that is no directory, Err when read_dir or an
\* entry fails, else the recursive sum
dir_size(node) ==
    IF ~is_dir(node) THEN Some(0)
    ELSE IF ~read_dir_ok(node) THEN None
    ELSE Some(node.size)

\* get_directory_size as it would be if a missing path measured zero bytes
GetDirectorySizeOfMissingIsZero(path, f, e) ==
    CHOOSE size \in
        { IF ~exists(node) THEN Some(0) ELSE dir_size(node) :
            node \in { NodeAt(f, expand_environment_variables(path, e)) } } : TRUE

\* get_directory_size(path): expands the path (again), None when it does not
\* exist or the traversal fails
get_directory_size(path, f, e) ==
    CHOOSE size \in
        { IF ~exists(node) THEN None ELSE dir_size(node) :
            node \in { NodeAt(f, expand_environment_variables(path, e)) } } : TRUE

(***************************************************************************)
(* Result<(), String> and the messages of run_clean_task_impl.  The source *)
(* texts are Chinese; the stand-ins keep their structure (prefix, the      *)
(* interpolated value, a line break, the hint).                            *)
(***************************************************************************)
Ok == [ok |-> TRUE, msg |-> ""]

Err(msg) == [ok |-> FALSE, msg |-> msg]

\* format!("清理路径不存在: {}\n无需清理，跳过此任务", expanded_path)
PathMissingMsg(expanded_path) ==
    "cleanup path does not exist: " \o expanded_path \o "\nnothing to clean, task skipped"

\* format!("目录为空: {}\n无需清理，跳过此任务", expanded_path)
DirEmptyMsg(expanded_path) ==
    "directory is empty: " \o expanded_path \o "\nnothing to clean, task skipped"

\* format!("尝试清理系统保护目录: {}\n出于安全考虑，此操作被拒绝", protected)
SafetyRefusedMsg(protected) ==
    "attempt to clean a protected system directory: " \o protected
        \o "\nrefused for safety reasons"

\* the stderr texts of the Chinese-locale cmd that the classifier looks for
ZhAccessDenied == "<zh:access denied>"

ZhFileNotFound == "<zh:file not found>"

ZhInUse == "<zh:in use>"

\* the OS error text of a failed process creation ("找不到指定的文件")
ZhSpecifiedFileNotFound == "<zh:cannot find the file specified>"

(***************************************************************************)
(* Pre-flight of run_clean_task_impl for a path-gated task: the outcome    *)
(* and the messages passed to log, in order.                               *)
(***************************************************************************)
\* the pre-flight as it would be without the test of the entry count
PathCheckSkipsEmpty(task, f, e) ==
    IF ~IsSome(task.path_check) THEN [err |-> None, logs |-> <<>>]
    ELSE LET expanded_path == expand_environment_variables(Unwrap(task.path_check), e)
         IN  IF ~exists(NodeAt(f, expanded_path))
             THEN [err |-> Some(PathMissingMsg(expanded_path)),
                   logs |-> <<"path check failed: " \o PathMissingMsg(expanded_path)>>]
             ELSE [err |-> None, logs |-> <<"path check passed: " \o expanded_path>>]

PathCheck(task, f, e) ==
    IF ~IsSome(task.path_check) THEN [err |-> None, logs |-> <<>>]
    ELSE LET expanded_path == expand_environment_variables(Unwrap(task.path_check), e)
             node == NodeAt(f, expanded_path)
         IN  IF ~exists(node)
             THEN [err |-> Some(PathMissingMsg(expanded_path)),
                   logs |-> <<"path check failed: " \o PathMissingMsg(expanded_path)>>]
             ELSE IF is_dir(node) /\ read_dir_ok(node) /\ entry_count(node) = 0
             THEN [err |-> Some(DirEmptyMsg(expanded_path)),
                   logs |-> <<"directory is empty: " \o DirEmptyMsg(expanded_path)>>]
             ELSE [err |-> None, logs |-> <<"path check passed: " \o expanded_path>>]

\* protected_paths as it would be with C:\Windows alone
ProtectedPathsWindowsOnly == << "C:\\Windows" >>

(***************************************************************************)
(* The safety filter of run_clean_task_impl: Some(protected) for the first *)
(* protected path, in the order of the array, that makes it refuse.        *)
(***************************************************************************)
protected_paths == << "C:\\Windows", "C:\\Program Files", "C:\\Program Files (x86)" >>

RECURSIVE ProtectedLoop(_, _)
ProtectedLoop(expanded_command, k) ==
    IF k > Len(protected_paths) THEN None
    ELSE IF /\ Contains(expanded_command, protected_paths[k])
            /\ ~Contains(expanded_command, "\\Temp\\")
         THEN Some(protected_paths[k])
         ELSE ProtectedLoop(expanded_command, k + 1)

\* the filter as it would be if it looked for the delete command at the start
\* of the command line instead of anywhere in it
SafetyFilterPrefix(expanded_command) ==
    IF StartsWith(expanded_command, "rmdir") \/ StartsWith(expanded_command, "del")
    THEN ProtectedLoop(expanded_command, 1)
    ELSE None

SafetyFilter(expanded_command) ==
    IF Contains(expanded_command, "rmdir") \/ Contains(expanded_command, "del")
    THEN ProtectedLoop(expanded_command, 1)
    ELSE None

(***************************************************************************)
(* What the awaited spawn_blocking yields: the output of a cmd that ran    *)
(* (exit status, stderr, stdout), the io::Error of a cmd that could not be *)
(* created, or the JoinError of the blocking task.                         *)
(***************************************************************************)
Exited(success, stderr, stdout) ==
    [kind |-> "exited", success |-> success, stderr |-> stderr, stdout |-> stdout]

SpawnFailed(error) ==
    [kind |-> "spawn_failed", success |-> FALSE, stderr |-> error, stdout |-> ""]

JoinFailed(error) ==
    [kind |-> "join_failed", success |-> FALSE, stderr |-> error, stdout |-> ""]

IsSpace(c) == c \in {" ", "\n", "\t", "\r"}

RECURSIVE TrimStart(_)
TrimStart(s) ==
    IF Len(s) > 0 /\ IsSpace(SubSeq(s, 1, 1)) THEN TrimStart(SubSeq(s, 2, Len(s))) ELSE s

RECURSIVE TrimEnd(_)
TrimEnd(s) ==
    IF Len(s) > 0 /\ IsSpace(SubSeq(s, Len(s), Len(s)))
    THEN TrimEnd(SubSeq(s, 1, Len(s) - 1)) ELSE s

\* str::trim
Trim(s) == TrimEnd(TrimStart(s))

\* DetailedError as it would be if the not-found test came first
DetailedErrorNotFoundFirst(error_msg, stdout_msg) ==
    IF Contains(error_msg, ZhFileNotFound)
    THEN "file or directory does not exist: " \o Trim(error_msg)
             \o "\nmay have been cleaned by another program"
    ELSE IF Contains(error_msg, ZhAccessDenied)
    THEN "insufficient permission: " \o Trim(error_msg)
             \o "\ntry running the program as administrator"
    ELSE IF Contains(error_msg, ZhInUse)
    THEN "file is in use: " \o Trim(error_msg)
             \o "\nclose the related programs and retry"
    ELSE IF stdout_msg # ""
    THEN "execution failed: " \o Trim(error_msg) \o "\ndetails: " \o Trim(stdout_msg)
    ELSE "execution failed: " \o Trim(error_msg)

\* the detailed_error of a cmd that exited with a failure status
DetailedError(error_msg, stdout_msg) ==
    IF Contains(error_msg, ZhAccessDenied)
    THEN "insufficient permission: " \o Trim(error_msg)
             \o "\ntry running the program as administrator"
    ELSE IF Contains(error_msg, ZhFileNotFound)
    THEN "file or directory does not exist: " \o Trim(error_msg)
             \o "\nmay have been cleaned by another program"
    ELSE IF Contains(error_msg, ZhInUse)
    THEN "file is in use: " \o Trim(error_msg)
             \o "\nclose the related programs and retry"
    ELSE IF stdout_msg # ""
    THEN "execution failed: " \o Trim(error_msg) \o "\ndetails: " \o Trim(stdout_msg)
    ELSE "execution failed: " \o Trim(error_msg)

\* the error_detail of a cmd that could not be created
SpawnErrorDetail(e) ==
    IF Contains(e, ZhSpecifiedFileNotFound)
    THEN "system command failed: the command or program cannot be found"
    ELSE IF Contains(e, ZhAccessDenied)
    THEN "system command failed: insufficient permission, run as administrator"
    ELSE "system command error: " \o e

\* match result { ... } of run_clean_task_impl: the returned Result and the
\* messages passed to log
Classify(output) ==
    IF output.kind = "exited"
    THEN IF output.success THEN [result |-> Ok, logs |-> <<>>]
         ELSE LET detailed_error == DetailedError(output.stderr, output.stdout)
              IN  [result |-> Err(detailed_error),
                   logs |-> <<"command failed: " \o detailed_error \o " - stderr: "
                               \o Trim(output.stderr) \o " - stdout: "
                               \o Trim(output.stdout)>>]
    ELSE IF output.kind = "spawn_failed"
    THEN [result |-> Err(SpawnErrorDetail(output.stderr)),
          logs |-> <<"command creation failed: " \o SpawnErrorDetail(output.stderr)
                      \o " - " \o output.stderr>>]
    ELSE [result |-> Err("async task failed: " \o output.stderr),
          logs |-> <<"tokio task failed: " \o "async task failed: " \o output.stderr>>]

(***************************************************************************)
(* load_custom_tasks.  The config file is missing, present but rejected by *)
(* toml::from_str, or present with the task list it parses to.             *)
(***************************************************************************)
FileMissing == [kind |-> "missing", task |-> <<>>]

FileMalformed == [kind |-> "malformed", task |-> <<>>]

FileWith(list) == [kind |-> "parsed", task |-> list]

\* the two [[task]] tables of the example file that load_custom_tasks writes
\* (names: 示例: 清理临时文件, 清理 VSCode 工作区缓存)
SeedTasks ==
    << CleanTask("Example: clean temp files", "Custom", "del /q %TEMP%\\*.tmp",
                 Some("%TEMP%"), TRUE, FALSE, Some("~100MB")),
       CleanTask("Clean VSCode workspace cache", "Custom",
                 "rmdir /s /q %APPDATA%\\Code\\User\\workspaceStorage",
                 Some("%APPDATA%\\Code\\User\\workspaceStorage"), TRUE, FALSE,
                 Some("auto")) >>

\* load_custom_tasks as it would be if it returned the example tasks it wrote
LoadReturnsExample(file) ==
    IF file.kind = "parsed"
    THEN [task |-> file.task, file |-> file, log |-> "loaded custom cleanup rules"]
    ELSE IF file.kind = "malformed"
    THEN [task |-> <<>>, file |-> file, log |-> "config file format error"]
    ELSE [task |-> SeedTasks, file |-> FileWith(SeedTasks), log |-> "created example config file"]

\* the list returned, the file as the call leaves it, the message it logs
load_custom_tasks(file) ==
    IF file.kind = "parsed"
    THEN [task |-> file.task, file |-> file, log |-> "loaded custom cleanup rules"]
    ELSE IF file.kind = "malformed"
    THEN [task |-> <<>>, file |-> file, log |-> "config file format error"]
    ELSE [task |-> <<>>, file |-> FileWith(SeedTasks), log |-> "created example config file"]

\* let all_tasks = { let mut all = tasks(); all.extend(custom_tasks); all }
MergedCatalog(custom_tasks) == tasks \o custom_tasks

\* the tables of the config files of the model beside the example's: a task
\* whose category is given as "System", a task whose category is "Custom"
TaskSys == CleanTask("S", "System", "del /q %TEMP%\\*.log", None, FALSE, FALSE, None)

TaskCustom == CleanTask("U", "Custom", "del /q %TEMP%\\*.bak", None, FALSE, FALSE, None)

\* the number of [[task]] tables of a config file of the model
MaxCustom == 2

ConfigFiles ==
    {FileMissing, FileMalformed, FileWith(SeedTasks)}
        \cup { FileWith(list) : list \in UNION { [1..n -> {TaskSys, TaskCustom}] : n \in 0..MaxCustom } }

(***************************************************************************)
(* Inputs of the model: the environment, the modelled users (the tasks     *)
(* they click, the runs they start, the config file they have), what a cmd *)
(* may answer.                                                             *)
(***************************************************************************)
\* an interactive user's environment
UserEnv ==
    [ n \in {"USERPROFILE", "APPDATA", "LOCALAPPDATA", "TEMP"} |->
        CASE n = "USERPROFILE" -> "C:\\Users\\u"
          [] n = "APPDATA" -> "C:\\Users\\u\\AppData\\Roaming"
          [] n = "LOCALAPPDATA" -> "C:\\Users\\u\\AppData\\Local"
          [] n = "TEMP" -> "C:\\Users\\u\\AppData\\Local\\Temp" ]

Envs == {UserEnv}

\* the spec's boundary task: a config-file task whose command deletes under
\* C:\Windows and that has no path_check
TaskT ==
    CleanTask("T", "Custom", "rmdir /s /q C:\\Windows\\System32", None, TRUE, TRUE,
              Some("auto"))

\* a modelled user: the task names they ever click, the number of async
\* tasks they ever start, and the config file the process finds at startup
User(names, runs, file) == [names |-> names, runs |-> runs, file |-> file]

Users ==
    { User({"Go Module Cache", "Gradle Cache"}, MaxRunsMany, FileMalformed),
      User({"Go Module Cache"}, MaxRuns, FileMalformed),
      User({"Office Updates"}, MaxRuns, FileMalformed),
      User({"Go Module Cache", "Cargo Cache", "npm Cache"}, MaxRunsMany, FileMalformed),
      User({"T", "Go Module Cache"}, MaxRunsMany, FileWith(<<TaskT>>)),
      User({"Gradle Cache"}, MaxRunsMany, FileMissing) }

\* the path_check of every task the user can run, expanded: the paths whose
\* state the model tracks
TrackedPaths(e, list, names) ==
    { expand_environment_variables(Unwrap(t.path_check), e) :
        t \in { list[k] : k \in { m \in 1..Len(list) :
                    list[m].name \in names /\ IsSome(list[m].path_check) } } }

Outputs ==
    { Exited(TRUE, "", ""),
      Exited(FALSE, ZhAccessDenied \o "\n", ""),
      SpawnFailed(ZhSpecifiedFileNotFound) }

(***************************************************************************)
(* AppState, CleanupStats, the progress signal (completed / total).        *)
(***************************************************************************)
Idle == [tag |-> "Idle"]

Running(msg) == [tag |-> "Running", msg |-> msg]

Success == [tag |-> "Success"]

\* the batch's terminal value as it would be if failures were published as
\* an error
SuccessWithStatsAsError(stats) == [tag |-> "Error", msg |-> "batch cleanup failed"]

SuccessWithStats(stats) == [tag |-> "SuccessWithStats", stats |-> stats]

\* Error as it would be if the run dropped the executor's message
ErrorWithoutMessage(msg) == [tag |-> "Error", msg |-> "task failed"]

Error(msg) == [tag |-> "Error", msg |-> msg]

\* the stats as they would be with the two counters in each other's place
CleanupStatsSwapped(total_tasks, successful_tasks, failed_tasks, total_space_freed, errors) ==
    [ total_tasks |-> total_tasks, successful_tasks |-> failed_tasks,
      failed_tasks |-> successful_tasks, total_space_freed |-> total_space_freed,
      errors |-> errors ]

CleanupStats(total_tasks, successful_tasks, failed_tasks, total_space_freed, errors) ==
    [ total_tasks |-> total_tasks, successful_tasks |-> successful_tasks,
      failed_tasks |-> failed_tasks, total_space_freed |-> total_space_freed,
      errors |-> errors ]

\* usize / u64 printed by format!("{}", n), for the counts the model reaches
RECURSIVE FormatNumber(_)
FormatNumber(n) ==
    IF n < 10 THEN SubSeq("0123456789", n + 1, n + 1)
    ELSE FormatNumber(n \div 10) \o SubSeq("0123456789", (n % 10) + 1, (n % 10) + 1)

(***************************************************************************)
(* log: the ring of the last MAX_LOGS entries and the log file.  A caller  *)
(* is a thread of the process that calls log; the script of a run gives    *)
(* each caller its number of calls and the calls whose message is the      *)
(* two-line text of a failed path check.  The timestamp of an entry stands *)
(* as the caller and the number of its call, which tells the entries apart.*)
(***************************************************************************)
MAX_LOGS == 100

\* the number of calls of the one caller of a long script
MaxLogCalls == 102

\* the callers of a concurrent script, and the calls each of them makes
MaxLoggers == 2

MaxConcCalls == 2

LogScript(calls, multiline) == [calls |-> calls, multiline |-> multiline]

NoLogScript == LogScript(<<>>, {})

LogScripts ==
    { LogScript(<<MaxLogCalls>>, {}),
      LogScript(<<MaxLogCalls>>, {<<1, 3>>}),
      LogScript([t \in 1..MaxLoggers |-> MaxConcCalls], {}),
      LogScript([t \in 1..MaxLoggers |-> MaxConcCalls], {<<1, 1>>}) }

\* the message of the k-th call of caller t: log(&format!("开始执行任务: {}", ..))
\* or log(&format!("路径检查失败: {}", msg)) with the msg of a missing path
Message(script, t, k) ==
    IF <<t, k>> \in script.multiline
    THEN "path check failed: " \o PathMissingMsg("C:\\Users\\u\\.gradle\\caches")
    ELSE "start task: Go"

\* chrono::Local::now().format("%Y-%m-%d %H:%M:%S")
Timestamp(t, k) == FormatNumber(t) \o "." \o FormatNumber(k)

\* let entry = format!("[{}] {}\n", timestamp, message)
Entry(timestamp, message) == "[" \o timestamp \o "] " \o message \o "\n"

\* RingPush with the test ring.len() > MAX_LOGS
RingPushLate(ring, entry) ==
    IF Len(ring) > MAX_LOGS THEN Tail(ring) \o <<entry>> ELSE ring \o <<entry>>

\* if ring.len() >= MAX_LOGS { ring.pop_front(); } ring.push_back(entry)
RingPush(ring, entry) ==
    IF Len(ring) >= MAX_LOGS THEN Tail(ring) \o <<entry>> ELSE ring \o <<entry>>

\* ring.iter().cloned().collect::<String>()
Collect(ring) == Join(ring)

\* the number of lines of a text: its line breaks
Lines(text) == Cardinality(Matches(text, "\n"))

IdleLogger == [pc |-> "idle", done |-> 0, entry |-> "", content |-> ""]

(***************************************************************************)
(* State.                                                                  *)
(*   user                   the modelled user (an input, fixed at startup) *)
(*   env, fs, config_file   the process environment, the tracked paths of  *)
(*                          the file system, wincleaner-config.toml        *)
(*   all_tasks              the merged list of the last render of app()    *)
(*   show_batch_mode, selected_tasks, show_confirmation, app_state,        *)
(*   progress               the signals of app()                           *)
(*   procs                  the async tasks created by spawn(): each one's *)
(*                          position, locals, and what it did so far:      *)
(*                          writes (the values set on app_state), logged   *)
(*                          (the messages passed to log), events, seen     *)
(*                          (the node the pre-flight of the current call   *)
(*                          found), outcomes (per finished batch task: its *)
(*                          name, that node, the executor's result, the    *)
(*                          two measurements, the accumulator after it,    *)
(*                          the node the path held after it)               *)
(*   polling                the task the single-threaded scheduler is      *)
(*                          polling (0: none); a poll runs to the next     *)
(*                          await without interleaving                     *)
(*   started                the tasks spawned so far (at most user.runs)   *)
(*   fn_in, fn_out          argument and result of a function applied on   *)
(*                          its own (the specifications of pure functions) *)
(***************************************************************************)
VARIABLES user, env, fs, config_file, all_tasks, show_batch_mode, selected_tasks,
          show_confirmation, app_state, progress, procs, polling, started, fn_in,
          fn_out, log_script, LOG_RING, log_file, log_calls, loggers, mutex,
          startup_tasks, last_load, gated_runs

vars ==
    << user, env, fs, config_file, all_tasks, show_batch_mode, selected_tasks,
       show_confirmation, app_state, progress, procs, polling, started, fn_in,
       fn_out, log_script, LOG_RING, log_file, log_calls, loggers, mutex,
       startup_tasks, last_load, gated_runs >>

world == << user, env, fs, config_file >>

ui == << all_tasks, show_batch_mode, selected_tasks, show_confirmation >>

fn == << fn_in, fn_out >>

logging == << log_script, LOG_RING, log_file, log_calls, loggers, mutex >>

loading == << startup_tasks, last_load >>

engine == << ui, app_state, progress, procs, polling, started >>

Slots == 1..MaxProcs

NoTask == CleanTask("", "", "", None, FALSE, FALSE, None)

IdleProc ==
    [ pc |-> "idle", kind |-> "none", task |-> NoTask, result |-> None,
      expanded_command |-> "", output |-> None, spawns |-> 0,
      order |-> <<>>, remaining |-> <<>>, all_tasks_clone |-> <<>>, total |-> 0,
      completed |-> 0, successful_tasks |-> 0, failed_tasks |-> 0,
      total_space_freed |-> 0, errors |-> <<>>, space_before |-> None,
      stats |-> None, seen |-> None, writes |-> <<>>, logged |-> <<>>,
      events |-> <<>>, outcomes |-> <<>> ]

\* spawn(async move { ... }): the new task takes the lowest free slot
FreeSlots == { i \in Slots : procs[i].pc = "idle" }

NewSlot == CHOOSE i \in FreeSlots : \A j \in FreeSlots : i <= j

\* the iteration orders of a HashSet
Orders(S) ==
    { o \in [1..Cardinality(S) -> S] : \A a, b \in 1..Cardinality(S) : o[a] = o[b] => a = b }

Event(what, name) == [ev |-> what, name |-> name]

\* the ring is empty and no log file is written before the first call of log
LogAtStart(script) ==
    /\ log_script = script
    /\ LOG_RING = <<>>
    /\ log_file = None
    /\ log_calls = <<>>
    /\ loggers = [t \in DOMAIN script.calls |-> IdleLogger]
    /\ mutex = 0

\* the first render of app(): the file load_custom_tasks found, what it made of it
LoaderAtStart(file) ==
    /\ startup_tasks = MergedCatalog(load_custom_tasks(file).task)
    /\ last_load = [found |-> file, loaded |-> load_custom_tasks(file)]

Init ==
    /\ user \in Users
    /\ env \in Envs
    /\ config_file = load_custom_tasks(user.file).file
    /\ all_tasks = MergedCatalog(load_custom_tasks(user.file).task)
    /\ fs \in [TrackedPaths(env, all_tasks, user.names) -> Nodes]
    /\ show_batch_mode = FALSE
    /\ selected_tasks = {}
    /\ show_confirmation = None
    /\ app_state = Idle
    /\ progress = <<0, 1>>
    /\ procs = [i \in Slots |-> IdleProc]
    /\ polling = 0
    /\ started = 0
    /\ fn_in = <<>>
    /\ fn_out = <<>>
    /\ LogAtStart(NoLogScript)
    /\ gated_runs = <<>>
    /\ LoaderAtStart(user.file)

(***************************************************************************)
(* The user interface: event handlers of app() and TaskCard.  A handler    *)
(* runs on the scheduler's thread, so none runs during a poll.             *)
(***************************************************************************)
\* spawn(async move { run_clean_task(task_clone, app_state).await })
SpawnSingle(task) ==
    /\ FreeSlots # {}
    /\ started < user.runs
    /\ started' = started + 1
    /\ procs' = [procs EXCEPT ![NewSlot] =
                   [IdleProc EXCEPT !.pc = "spawned", !.kind = "single", !.task = task]]

\* a render of app(): load_custom_tasks runs again and the list is merged anew
Render ==
    /\ polling = 0
    /\ LET loaded == load_custom_tasks(config_file)
       IN  /\ all_tasks' = MergedCatalog(loaded.task)
           /\ config_file' = loaded.file
           /\ last_load' = [found |-> config_file, loaded |-> loaded]
    /\ UNCHANGED startup_tasks
    /\ UNCHANGED << user, env, fs, show_batch_mode, selected_tasks,
                    show_confirmation, app_state, progress, procs, polling, fn, logging, gated_runs,
                    started >>

\* Switch ontoggled
ToggleBatchMode ==
    /\ polling = 0
    /\ show_batch_mode' = ~show_batch_mode
    /\ UNCHANGED << world, all_tasks, selected_tasks, show_confirmation, app_state,
                    progress, procs, polling, fn, logging, loading, gated_runs, started >>

\* TaskCard onclick in batch mode: on_toggle
ToggleTask(name) ==
    /\ polling = 0
    /\ show_batch_mode
    /\ IsSome(Find(all_tasks, name))
    /\ IF name \in selected_tasks
       THEN selected_tasks' = selected_tasks \ {name}
       ELSE selected_tasks' = selected_tasks \cup {name}
    /\ UNCHANGED << world, all_tasks, show_batch_mode, show_confirmation, app_state,
                    progress, procs, polling, fn, logging, loading, gated_runs, started >>

\* TaskCard's onclick without the requires_confirmation branch
TaskCardClickNoPopup(name) ==
    /\ polling = 0
    /\ ~show_batch_mode
    /\ IsSome(Find(all_tasks, name))
    /\ SpawnSingle(Unwrap(Find(all_tasks, name)))
    /\ UNCHANGED << world, all_tasks, show_batch_mode, selected_tasks, app_state,
                    progress, polling, fn, logging, loading, gated_runs,
                    show_confirmation >>

\* the Button of a TaskCard (rendered when not in batch mode)
TaskCardClick(name) ==
    /\ polling = 0
    /\ ~show_batch_mode
    /\ IsSome(Find(all_tasks, name))
    /\ LET task == Unwrap(Find(all_tasks, name))
       IN  IF task.requires_confirmation
           THEN /\ show_confirmation' = Some(task)
                /\ UNCHANGED << procs, started >>
           ELSE /\ SpawnSingle(task)
                /\ UNCHANGED show_confirmation
    /\ UNCHANGED << world, all_tasks, show_batch_mode, selected_tasks, app_state,
                    progress, polling, fn, logging, loading, gated_runs >>

\* the confirm button of the popup
ConfirmClick ==
    /\ polling = 0
    /\ IsSome(show_confirmation)
    /\ show_confirmation' = None
    /\ SpawnSingle(Unwrap(show_confirmation))
    /\ UNCHANGED << world, all_tasks, show_batch_mode, selected_tasks, app_state,
                    progress, polling, fn, logging, loading, gated_runs >>

\* the cancel button of the popup, or its close request
CancelClick ==
    /\ polling = 0
    /\ IsSome(show_confirmation)
    /\ show_confirmation' = None
    /\ UNCHANGED << world, all_tasks, show_batch_mode, selected_tasks, app_state,
                    progress, procs, polling, fn, logging, loading, gated_runs, started >>

\* the batch button (rendered in batch mode with a non-empty selection): the
\* handler publishes Running, resets the progress and spawns the batch loop
\* over the selection, in the set's iteration order
BatchClick(order) ==
    /\ polling = 0
    /\ show_batch_mode
    /\ selected_tasks # {}
    /\ order \in Orders(selected_tasks)
    /\ FreeSlots # {}
    /\ started < user.runs
    /\ started' = started + 1
    /\ LET msg == Running("batch cleanup of " \o FormatNumber(Len(order)) \o " tasks")
       IN  /\ app_state' = msg
           /\ procs' = [procs EXCEPT ![NewSlot] =
                          [IdleProc EXCEPT !.pc = "spawned", !.kind = "batch",
                                           !.order = order, !.remaining = order,
                                           !.all_tasks_clone = all_tasks,
                                           !.total = Len(order),
                                           !.writes = <<msg>>]]
    /\ progress' = <<0, 1>>
    /\ UNCHANGED << world, ui, polling, fn, logging, loading, gated_runs >>

(***************************************************************************)
(* run_clean_task_impl, in the steps between its returns and its await.    *)
(***************************************************************************)
\* entry: the first log line and the pre-flight of a path-gated task
ImplPreflight(i) ==
    /\ polling = i
    /\ procs[i].pc = "impl"
    /\ LET p == procs[i]
           checked == PathCheck(p.task, fs, env)
           logs == << "check task: " \o p.task.name \o " - command: " \o p.task.command >>
                     \o checked.logs
       IN  procs' = [procs EXCEPT ![i] =
             [p EXCEPT !.logged = p.logged \o logs,
                       !.events = Append(p.events, Event("call", p.task.name)),
                       !.spawns = 0,
                       !.output = None,
                       !.expanded_command = "",
                       !.seen = IF IsSome(p.task.path_check)
                                THEN Some(NodeAt(fs, expand_environment_variables(
                                                         Unwrap(p.task.path_check), env)))
                                ELSE None,
                       !.result = IF IsSome(checked.err)
                                  THEN Some(Err(Unwrap(checked.err))) ELSE None,
                       !.pc = IF IsSome(checked.err) THEN "ret" ELSE "filter"]]
    /\ UNCHANGED << world, ui, app_state, progress, polling, fn, logging, loading, gated_runs, started >>

\* ImplFilter as it would be if the refusal branch logged and did not return
ImplFilterNoReturn(i) ==
    /\ polling = i
    /\ procs[i].pc = "filter"
    /\ LET p == procs[i]
           expanded_command == expand_environment_variables(p.task.command, env)
           refused == SafetyFilter(expanded_command)
           logs == IF IsSome(refused)
                   THEN <<"safety block: " \o SafetyRefusedMsg(Unwrap(refused))>>
                   ELSE <<>>
       IN  procs' = [procs EXCEPT ![i] =
               [p EXCEPT !.expanded_command = expanded_command,
                         !.logged = p.logged \o logs
                                        \o <<"execute command: " \o expanded_command>>,
                         !.events = Append(p.events, Event("spawn", p.task.name)),
                         !.spawns = p.spawns + 1,
                         !.pc = "await"]]
    /\ polling' = 0
    /\ UNCHANGED << world, ui, app_state, progress, fn, logging, loading, gated_runs, started >>

\* the command is expanded and filtered; a command that passes is handed to
\* spawn_blocking (cmd /C <expanded>) and the task awaits it
ImplFilter(i) ==
    /\ polling = i
    /\ procs[i].pc = "filter"
    /\ LET p == procs[i]
           expanded_command == expand_environment_variables(p.task.command, env)
           refused == SafetyFilter(expanded_command)
       IN  IF IsSome(refused)
           THEN /\ procs' = [procs EXCEPT ![i] =
                     [p EXCEPT !.expanded_command = expanded_command,
                               !.logged = Append(p.logged, "safety block: "
                                             \o SafetyRefusedMsg(Unwrap(refused))),
                               !.result = Some(Err(SafetyRefusedMsg(Unwrap(refused)))),
                               !.pc = "ret"]]
                /\ UNCHANGED polling
           ELSE /\ procs' = [procs EXCEPT ![i] =
                     [p EXCEPT !.expanded_command = expanded_command,
                               !.logged = Append(p.logged, "execute command: "
                                             \o expanded_command),
                               !.events = Append(p.events, Event("spawn", p.task.name)),
                               !.spawns = p.spawns + 1,
                               !.pc = "await"]]
                /\ polling' = 0
    /\ UNCHANGED << world, ui, app_state, progress, fn, logging, loading, gated_runs, started >>

\* the blocking worker ends: the cmd ran and left the task's path in some
\* state, or it could not be created.  It is a thread of its own: it may end
\* while another task is polled.
SubprocessExit(i, output, node) ==
    /\ procs[i].pc = "await"
    /\ output \in Outputs
    /\ LET p == procs[i]
           path == IF IsSome(p.task.path_check)
                   THEN expand_environment_variables(Unwrap(p.task.path_check), env)
                   ELSE ""
       IN  /\ IF output.kind = "exited" /\ path \in DOMAIN fs
              THEN /\ node \in Nodes
                   /\ fs' = [fs EXCEPT ![path] = node]
              ELSE /\ node = Missing
                   /\ UNCHANGED fs
           /\ procs' = [procs EXCEPT ![i] =
                 [p EXCEPT !.output = Some(output),
                           !.events = Append(p.events, Event("exit", p.task.name)),
                           !.pc = "woken"]]
    /\ UNCHANGED << user, env, config_file, ui, app_state, progress, polling, fn, logging, loading, gated_runs,
                    started >>

\* the await returns: match result { ... }
ImplClassify(i) ==
    /\ polling = 0
    /\ procs[i].pc = "woken"
    /\ LET p == procs[i]
           c == Classify(Unwrap(p.output))
       IN  procs' = [procs EXCEPT ![i] =
             [p EXCEPT !.logged = p.logged \o c.logs,
                       !.result = Some(c.result),
                       !.pc = "ret"]]
    /\ polling' = i
    /\ UNCHANGED << world, ui, app_state, progress, fn, logging, loading, gated_runs, started >>

\* history: the returned calls of the executor for tasks with a path_check,
\* oldest first; each with the node its pre-flight found and the node the
\* path holds when the caller takes the result
GatedRun(p, f, e) ==
    [ name |-> p.task.name, result |-> Unwrap(p.result), seen |-> Unwrap(p.seen),
      left |-> NodeAt(f, expand_environment_variables(Unwrap(p.task.path_check), e)) ]

Returned(p) ==
    IF IsSome(p.task.path_check) THEN Append(gated_runs, GatedRun(p, fs, env)) ELSE gated_runs

(***************************************************************************)
(* run_clean_task: a single-task run.                                      *)
(***************************************************************************)
RunCleanTaskStart(i) ==
    /\ polling = 0
    /\ procs[i].pc = "spawned"
    /\ procs[i].kind = "single"
    /\ LET p == procs[i]
           msg == Running("running: " \o p.task.name)
       IN  /\ app_state' = msg
           /\ procs' = [procs EXCEPT ![i] =
                 [p EXCEPT !.logged = Append(p.logged, "start task: " \o p.task.name),
                           !.writes = Append(p.writes, msg),
                           !.pc = "impl"]]
    /\ polling' = i
    /\ UNCHANGED << world, ui, progress, fn, logging, loading, gated_runs, started >>

RunCleanTaskFinish(i) ==
    /\ polling = i
    /\ procs[i].pc = "ret"
    /\ procs[i].kind = "single"
    /\ LET p == procs[i]
           r == Unwrap(p.result)
           final == IF r.ok THEN Success ELSE Error(r.msg)
           line == IF r.ok THEN "task succeeded: " \o p.task.name
                   ELSE "task failed: " \o p.task.name \o " - " \o r.msg
       IN  /\ app_state' = final
           /\ procs' = [procs EXCEPT ![i] =
                 [p EXCEPT !.logged = Append(p.logged, line),
                           !.events = Append(p.events, Event("return", p.task.name)),
                           !.writes = Append(p.writes, final),
                           !.pc = "done"]]
    /\ gated_runs' = Returned(procs[i])
    /\ UNCHANGED << world, ui, progress, polling, fn, logging, loading, started >>

\* the future of a spawned task is complete: the scheduler drops the task
TaskComplete(i) ==
    /\ polling = i
    /\ procs[i].pc = "done"
    /\ procs' = [procs EXCEPT ![i] = IdleProc]
    /\ polling' = 0
    /\ UNCHANGED << world, ui, app_state, progress, fn, logging, loading, gated_runs, started >>

(***************************************************************************)
(* The batch loop spawned by the batch button.                             *)
(***************************************************************************)
\* the loop head as it would be if the loop went on without awaiting the
\* executor (the cmd of the previous task still running)
AtLoopHeadEager(i) ==
    /\ procs[i].kind = "batch"
    /\ \/ procs[i].pc \in {"spawned", "await"} /\ polling = 0
       \/ procs[i].pc = "loop" /\ polling = i

\* the task is at the head of its loop: just spawned (its first poll begins)
\* or back from the body within a poll
AtLoopHead(i) ==
    /\ procs[i].kind = "batch"
    /\ \/ procs[i].pc = "spawned" /\ polling = 0
       \/ procs[i].pc = "loop" /\ polling = i

\* for task_name in selected: a name that resolves publishes Running and is
\* measured before its run; a name that does not is skipped
BatchNext(i) ==
    /\ AtLoopHead(i)
    /\ procs[i].remaining # <<>>
    /\ LET p == procs[i]
           task_name == Head(p.remaining)
           found == Find(p.all_tasks_clone, task_name)
       IN  IF IsSome(found)
           THEN LET task == Unwrap(found)
                    msg == Running("cleaning: " \o task.name)
                    gated == IsSome(task.path_check)
                    space_before ==
                        IF gated
                        THEN get_directory_size(
                                 expand_environment_variables(Unwrap(task.path_check), env),
                                 fs, env)
                        ELSE None
                IN  /\ app_state' = msg
                    /\ procs' = [procs EXCEPT ![i] =
                          [p EXCEPT !.remaining = Tail(p.remaining),
                                    !.task = task,
                                    !.space_before = space_before,
                                    !.writes = Append(p.writes, msg),
                                    !.events = p.events \o <<Event("running", task.name)>>
                                        \o (IF gated THEN <<Event("before", task.name)>>
                                            ELSE <<>>),
                                    !.pc = "impl"]]
           ELSE /\ procs' = [procs EXCEPT ![i] =
                      [p EXCEPT !.remaining = Tail(p.remaining), !.pc = "loop"]]
                /\ UNCHANGED app_state
    /\ polling' = i
    /\ UNCHANGED << world, ui, progress, fn, logging, loading, gated_runs, started >>

\* Freed as it would be without the test before > after
FreedUnguarded(ok, gated, space_before, space_after) ==
    IF ok /\ gated /\ IsSome(space_before) /\ IsSome(space_after)
    THEN Unwrap(space_before) - Unwrap(space_after)
    ELSE 0

\* what one task adds to total_space_freed: in the Ok arm, for a task with a
\* path_check, if let (Some(before), Some(after)) and before > after
Freed(ok, gated, space_before, space_after) ==
    IF /\ ok
       /\ gated
       /\ IsSome(space_before)
       /\ IsSome(space_after)
       /\ Unwrap(space_before) > Unwrap(space_after)
    THEN Unwrap(space_before) - Unwrap(space_after)
    ELSE 0

\* BatchRecord as it would be if the loop ended at the first error (as a
\* `?` or a break in the Err arm would make it)
BatchRecordAbort(i) ==
    /\ polling = i
    /\ procs[i].pc = "ret"
    /\ procs[i].kind = "batch"
    /\ LET p == procs[i]
           r == Unwrap(p.result)
       IN  /\ progress' = <<p.completed + 1, p.total>>
           /\ procs' = [procs EXCEPT ![i] =
                 [p EXCEPT !.completed = p.completed + 1,
                           !.successful_tasks = IF r.ok THEN @ + 1 ELSE @,
                           !.failed_tasks = IF r.ok THEN @ ELSE @ + 1,
                           !.errors = IF r.ok THEN @
                                      ELSE Append(@, p.task.name \o ": " \o r.msg),
                           !.remaining = IF r.ok THEN @ ELSE <<>>,
                           !.outcomes = Append(@, [name |-> p.task.name, seen |-> p.seen,
                                                   result |-> r]),
                           !.events = Append(p.events, Event("return", p.task.name)),
                           !.pc = "loop"]]
    /\ gated_runs' = Returned(procs[i])
    /\ UNCHANGED << world, ui, app_state, polling, fn, logging, loading, started >>

\* after run_clean_task_impl(task.clone()).await: the counters, the progress,
\* the measurement after a successful run, the error entry of a failed one
BatchRecord(i) ==
    /\ polling = i
    /\ procs[i].pc = "ret"
    /\ procs[i].kind = "batch"
    /\ \E space_after \in
             { IF IsSome(procs[i].task.path_check)
               THEN get_directory_size(
                        expand_environment_variables(
                            Unwrap(procs[i].task.path_check), env),
                        fs, env)
               ELSE None },
          left \in
             { IF IsSome(procs[i].task.path_check)
               THEN GatedRun(procs[i], fs, env).left
               ELSE Missing } :
       LET p == procs[i]
           r == Unwrap(p.result)
           gated == IsSome(p.task.path_check)
           freed == Freed(r.ok, gated, p.space_before, space_after)
       IN  /\ progress' = <<p.completed + 1, p.total>>
           /\ procs' = [procs EXCEPT ![i] =
                 [p EXCEPT !.completed = p.completed + 1,
                           !.successful_tasks = IF r.ok THEN @ + 1 ELSE @,
                           !.failed_tasks = IF r.ok THEN @ ELSE @ + 1,
                           !.total_space_freed = @ + freed,
                           !.errors = IF r.ok THEN @
                                      ELSE Append(@, p.task.name \o ": " \o r.msg),
                           !.outcomes = Append(@, [name |-> p.task.name, seen |-> p.seen,
                                                   result |-> r, gated |-> gated,
                                                   before |-> p.space_before,
                                                   after |-> space_after,
                                                   left |-> left,
                                                   freed |-> p.total_space_freed + freed]),
                           !.events = p.events \o <<Event("return", p.task.name)>>
                               \o (IF r.ok /\ gated THEN <<Event("after", p.task.name)>>
                                   ELSE <<>>),
                           !.pc = "loop"]]
    /\ gated_runs' = Returned(procs[i])
    /\ UNCHANGED << world, ui, app_state, polling, fn, logging, loading, started >>

\* after the loop: the stats are built and the terminal state is published;
\* the selection is cleared
BatchFinish(i) ==
    /\ AtLoopHead(i)
    /\ procs[i].remaining = <<>>
    /\ LET p == procs[i]
           stats == CleanupStats(p.total, p.successful_tasks, p.failed_tasks,
                                 IF p.total_space_freed > 0
                                 THEN Some(p.total_space_freed) ELSE None,
                                 p.errors)
           final == IF p.failed_tasks > 0 THEN SuccessWithStats(stats) ELSE Success
       IN  /\ app_state' = final
           /\ procs' = [procs EXCEPT ![i] =
                 [p EXCEPT !.stats = Some(stats),
                           !.writes = Append(p.writes, final),
                           !.pc = "done"]]
    /\ selected_tasks' = {}
    /\ polling' = i
    /\ UNCHANGED << world, all_tasks, show_batch_mode, show_confirmation, progress,
                    fn, logging, loading, gated_runs, started >>

(***************************************************************************)
(* The program.                                                            *)
(***************************************************************************)
\* the steps the scheduler takes when it polls task i
Poll(i) ==
    \/ RunCleanTaskStart(i)
    \/ BatchNext(i)
    \/ ImplPreflight(i)
    \/ ImplFilter(i)
    \/ ImplClassify(i)
    \/ BatchRecord(i)
    \/ RunCleanTaskFinish(i)
    \/ BatchFinish(i)
    \/ TaskComplete(i)

Exit(i) == \E output \in Outputs, node \in Nodes : SubprocessExit(i, output, node)

Next ==
    \/ Render
    \/ ToggleBatchMode
    \/ \E name \in user.names : ToggleTask(name)
    \/ \E name \in user.names : TaskCardClick(name)
    \/ ConfirmClick
    \/ CancelClick
    \/ \E order \in Orders(selected_tasks) : BatchClick(order)
    \/ \E i \in Slots : Poll(i)
    \/ \E i \in Slots : Exit(i)

Spec == Init /\ [][Next]_vars

\* a step of some spawned task or the end of some cmd
Step == \E i \in Slots : Poll(i) \/ Exit(i)

\* the scheduler keeps polling the tasks that are ready and every cmd ends:
\* while a task is unfinished, some step of a task is taken
FairSpec == Spec /\ WF_vars(Step)

(***************************************************************************)
(* The program in the hands of a user who runs, up to MaxRuns times, one   *)
(* task that asks for confirmation, is marked dangerous, has no path_check *)
(* and passes the safety filter.                                           *)
(***************************************************************************)
ConfirmUsers == { User({"System Component Cleanup"}, MaxRuns, FileMalformed) }

InitConfirm ==
    /\ user \in ConfirmUsers
    /\ env \in Envs
    /\ config_file = load_custom_tasks(user.file).file
    /\ all_tasks = MergedCatalog(load_custom_tasks(user.file).task)
    /\ fs \in [TrackedPaths(env, all_tasks, user.names) -> Nodes]
    /\ show_batch_mode = FALSE
    /\ selected_tasks = {}
    /\ show_confirmation = None
    /\ app_state = Idle
    /\ progress = <<0, 1>>
    /\ procs = [i \in Slots |-> IdleProc]
    /\ polling = 0
    /\ started = 0
    /\ fn_in = <<>>
    /\ fn_out = <<>>
    /\ LogAtStart(NoLogScript)
    /\ gated_runs = <<>>
    /\ LoaderAtStart(user.file)

SpecConfirm == InitConfirm /\ [][Next]_vars

(***************************************************************************)
(* The program in the hands of a user who runs one path-gated task that    *)
(* asks for confirmation and that the safety filter lets through, up to    *)
(* MaxRuns times, and whose cmd removes the directory or a part of it.     *)
(***************************************************************************)
RerunUsers == { User({"Trae AI Chat Logs"}, MaxRuns, FileMalformed) }

InitRerun ==
    /\ user \in RerunUsers
    /\ env \in Envs
    /\ config_file = load_custom_tasks(user.file).file
    /\ all_tasks = MergedCatalog(load_custom_tasks(user.file).task)
    /\ fs \in [TrackedPaths(env, all_tasks, user.names) -> Nodes]
    /\ show_batch_mode = FALSE
    /\ selected_tasks = {}
    /\ show_confirmation = None
    /\ app_state = Idle
    /\ progress = <<0, 1>>
    /\ procs = [i \in Slots |-> IdleProc]
    /\ polling = 0
    /\ started = 0
    /\ fn_in = <<>>
    /\ fn_out = <<>>
    /\ LogAtStart(NoLogScript)
    /\ gated_runs = <<>>
    /\ LoaderAtStart(user.file)

\* what the cmd of this task leaves of its directory: nothing, the empty
\* directory, or a part of its files
Leftovers == {Missing, EmptyDir, FullDir(1)}

ExitRerun(i) == \E output \in Outputs, node \in Leftovers : SubprocessExit(i, output, node)

NextRerun ==
    \/ Render
    \/ ToggleBatchMode
    \/ \E name \in user.names : ToggleTask(name)
    \/ \E name \in user.names : TaskCardClick(name)
    \/ ConfirmClick
    \/ CancelClick
    \/ \E order \in Orders(selected_tasks) : BatchClick(order)
    \/ \E i \in Slots : Poll(i)
    \/ \E i \in Slots : ExitRerun(i)

SpecRerun == InitRerun /\ [][NextRerun]_vars

(***************************************************************************)
(* The safety filter on its own: a task whose command is put together from *)
(* at most MaxParts chunks, with any dangerous flag and any path_check, is *)
(* expanded and filtered as run_clean_task_impl does after the pre-flight. *)
(***************************************************************************)
DeleteChunks == {"rmdir /s /q ", "del /q ", "echo model "}

ProtectedChunks == {"C:\\Windows\\x ", "C:\\Program Files\\x ", "C:\\Program Files (x86)\\x "}

TempChunks == {"D:\\Temp\\x "}

OtherChunks == {"dir ", "D:\\temp\\x ", "C:\\Users\\u "}

Chunks == DeleteChunks \cup ProtectedChunks \cup TempChunks \cup OtherChunks

FilterInputs ==
    { [ parts |-> parts,
        task |-> CleanTask("t", "Custom", Join(parts), path_check, TRUE, dangerous, None) ] :
        parts \in UNION { [1..n -> Chunks] : n \in 1..MaxParts },
        path_check \in {None, Some("C:\\Windows")},
        dangerous \in BOOLEAN }

InitFilter ==
    /\ user = User({}, 0, FileMalformed)
    /\ env = UserEnv
    /\ config_file = FileMalformed
    /\ all_tasks = tasks
    /\ fs = [path \in {} |-> Missing]
    /\ show_batch_mode = FALSE
    /\ selected_tasks = {}
    /\ show_confirmation = None
    /\ app_state = Idle
    /\ progress = <<0, 1>>
    /\ procs = [i \in Slots |-> IdleProc]
    /\ polling = 0
    /\ started = 0
    /\ fn_in \in { <<x>> : x \in FilterInputs }
    /\ fn_out = <<>>
    /\ LogAtStart(NoLogScript)
    /\ gated_runs = <<>>
    /\ LoaderAtStart(FileMalformed)

\* let expanded_command = expand_environment_variables(&task.command); then
\* the filter: fn_out is Some(protected) when it refuses, None when it passes
ApplyFilter ==
    /\ fn_out = <<>>
    /\ fn_out' = << SafetyFilter(expand_environment_variables(fn_in[1].task.command, env)) >>
    /\ UNCHANGED << world, ui, app_state, progress, procs, polling, started, fn_in, logging, loading, gated_runs >>

NextFilter == ApplyFilter

SpecFilter == InitFilter /\ [][NextFilter]_vars

(***************************************************************************)
(* log, one step per caller: the entry is formatted before the lock is     *)
(* taken; the lock is held from LOG_RING.lock() to the return, over the    *)
(* eviction, the push, the snapshot of the ring and the write of the file. *)
(*   log_script   the callers and their calls (an input)                   *)
(*   LOG_RING     the ring                                                 *)
(*   log_file     wincleaner.log: None until the first write               *)
(*   log_calls    history: the entries in the order they were pushed       *)
(*   loggers      per caller: its position in log, the calls it returned   *)
(*                from, its entry and its snapshot                         *)
(*   mutex        0, or the caller that holds the lock of LOG_RING         *)
(***************************************************************************)
InitLog ==
    /\ user = User({}, 0, FileMalformed)
    /\ env = UserEnv
    /\ config_file = FileMalformed
    /\ all_tasks = tasks
    /\ fs = [path \in {} |-> Missing]
    /\ show_batch_mode = FALSE
    /\ selected_tasks = {}
    /\ show_confirmation = None
    /\ app_state = Idle
    /\ progress = <<0, 1>>
    /\ procs = [i \in Slots |-> IdleProc]
    /\ polling = 0
    /\ started = 0
    /\ fn_in = <<>>
    /\ fn_out = <<>>
    /\ \E script \in LogScripts : LogAtStart(script)
    /\ gated_runs = <<>>
    /\ LoaderAtStart(FileMalformed)

\* let timestamp = ..; let entry = format!("[{}] {}\n", timestamp, message)
LogFormat(t) ==
    /\ loggers[t].pc = "idle"
    /\ loggers[t].done < log_script.calls[t]
    /\ LET k == loggers[t].done + 1
       IN  loggers' = [loggers EXCEPT ![t].pc = "formatted",
                          ![t].entry = Entry(Timestamp(t, k), Message(log_script, t, k))]
    /\ UNCHANGED << world, engine, fn, loading, gated_runs, log_script, LOG_RING, log_file, log_calls, mutex >>

\* LogPush as it would be if the guard were dropped before the write
LogPushUnlocks(t) ==
    /\ loggers[t].pc = "formatted"
    /\ mutex = 0
    /\ LOG_RING' = RingPush(LOG_RING, loggers[t].entry)
    /\ log_calls' = Append(log_calls, loggers[t].entry)
    /\ loggers' = [loggers EXCEPT ![t].pc = "pushed", ![t].content = Collect(LOG_RING')]
    /\ UNCHANGED << world, engine, fn, loading, gated_runs, log_script, log_file, mutex >>

\* let mut ring = LOG_RING.lock().unwrap(); the eviction, the push, the snapshot
LogPush(t) ==
    /\ loggers[t].pc = "formatted"
    /\ mutex = 0
    /\ mutex' = t
    /\ LOG_RING' = RingPush(LOG_RING, loggers[t].entry)
    /\ log_calls' = Append(log_calls, loggers[t].entry)
    /\ loggers' = [loggers EXCEPT ![t].pc = "pushed", ![t].content = Collect(LOG_RING')]
    /\ UNCHANGED << world, engine, fn, loading, gated_runs, log_script, log_file >>

\* std::fs::write(LOG_FILE, content), then the return, which drops the guard
LogWrite(t) ==
    /\ loggers[t].pc = "pushed"
    /\ log_file' = Some(loggers[t].content)
    /\ mutex' = IF mutex = t THEN 0 ELSE mutex
    /\ loggers' = [loggers EXCEPT ![t].pc = "idle", ![t].done = @ + 1]
    /\ UNCHANGED << world, engine, fn, loading, gated_runs, log_script, LOG_RING, log_calls >>

NextLog == \E t \in DOMAIN log_script.calls : LogFormat(t) \/ LogPush(t) \/ LogWrite(t)

SpecLog == InitLog /\ [][NextLog]_vars

(***************************************************************************)
(* The classification of a cmd that ran: any exit status, a stderr made of *)
(* up to MaxErrParts chunks (the three texts the classifier looks for and  *)
(* another text), an empty or a non-empty stdout.                          *)
(***************************************************************************)
MaxErrParts == 2

ErrChunks == {ZhAccessDenied, ZhFileNotFound, ZhInUse, "The system cannot find the path. "}

StdoutTexts == {"", "\n", "1 file(s) kept\n"}

ClassifyInputs ==
    { [parts |-> parts, success |-> success, stdout |-> stdout] :
        parts \in UNION { [1..n -> ErrChunks] : n \in 0..MaxErrParts },
        success \in BOOLEAN,
        stdout \in StdoutTexts }

InitClassify ==
    /\ user = User({}, 0, FileMalformed)
    /\ env = UserEnv
    /\ config_file = FileMalformed
    /\ all_tasks = tasks
    /\ fs = [path \in {} |-> Missing]
    /\ show_batch_mode = FALSE
    /\ selected_tasks = {}
    /\ show_confirmation = None
    /\ app_state = Idle
    /\ progress = <<0, 1>>
    /\ procs = [i \in Slots |-> IdleProc]
    /\ polling = 0
    /\ started = 0
    /\ fn_in \in { <<x>> : x \in ClassifyInputs }
    /\ fn_out = <<>>
    /\ LogAtStart(NoLogScript)
    /\ gated_runs = <<>>
    /\ LoaderAtStart(FileMalformed)

\* match result { Ok(Ok(output)) => ... }: fn_out is the Result returned
ApplyClassify ==
    /\ fn_out = <<>>
    /\ fn_out' = << Classify(Exited(fn_in[1].success, Join(fn_in[1].parts),
                                    fn_in[1].stdout)).result >>
    /\ UNCHANGED << world, engine, fn_in, logging, loading, gated_runs >>

NextClassify == ApplyClassify

SpecClassify == InitClassify /\ [][NextClassify]_vars

(***************************************************************************)
(* expand_environment_variables applied to strings made of up to MaxParts  *)
(* chunks: placeholders in upper case and in the mixed case of the VSCode  *)
(* Cpptools task, plain text, and the two halves of a placeholder.  The    *)
(* environments: the user's (TMP is not set), and one whose values hold    *)
(* placeholder tokens themselves.                                          *)
(***************************************************************************)
ExpandChunks ==
    { "%USERPROFILE%", "%LOCALAPPDATA%", "%LocalAppData%", "%TEMP%", "%TMP%",
      "\\Microsoft\\vscode-cpptools", "%USER", "PROFILE%" }

NestedEnv ==
    [ n \in {"USERPROFILE", "LOCALAPPDATA", "TEMP", "TMP"} |->
        CASE n = "USERPROFILE" -> "%TEMP%\\u"
          [] n = "LOCALAPPDATA" -> "C:\\L"
          [] n = "TEMP" -> "C:\\T"
          [] n = "TMP" -> "%USERPROFILE%\\t" ]

ExpandEnvs == {UserEnv, NestedEnv}

ExpandInputs == { [parts |-> parts] : parts \in UNION { [1..n -> ExpandChunks] : n \in 1..MaxParts } }

InitExpand ==
    /\ user = User({}, 0, FileMalformed)
    /\ env \in ExpandEnvs
    /\ config_file = FileMalformed
    /\ all_tasks = tasks
    /\ fs = [path \in {} |-> Missing]
    /\ show_batch_mode = FALSE
    /\ selected_tasks = {}
    /\ show_confirmation = None
    /\ app_state = Idle
    /\ progress = <<0, 1>>
    /\ procs = [i \in Slots |-> IdleProc]
    /\ polling = 0
    /\ started = 0
    /\ fn_in \in { <<x>> : x \in ExpandInputs }
    /\ fn_out = <<>>
    /\ LogAtStart(NoLogScript)
    /\ gated_runs = <<>>
    /\ LoaderAtStart(FileMalformed)

\* fn_out is the string expand_environment_variables returns for the input
ApplyExpand ==
    /\ fn_out = <<>>
    /\ fn_out' = << expand_environment_variables(Join(fn_in[1].parts), env) >>
    /\ UNCHANGED << world, engine, fn_in, logging, loading, gated_runs >>

NextExpand == ApplyExpand

SpecExpand == InitExpand /\ [][NextExpand]_vars

(***************************************************************************)
(* The catalog over the renders of app(), with the config file changing on *)
(* disk between them (the user edits, replaces or deletes it).             *)
(*   startup_tasks   history: the merged list of the first render          *)
(*   last_load       history: the file the last load_custom_tasks found    *)
(*                   and what it returned, left on disk and logged         *)
(***************************************************************************)
InitCatalog ==
    /\ \E file \in ConfigFiles :
          /\ user = User({}, 0, file)
          /\ config_file = load_custom_tasks(file).file
          /\ all_tasks = MergedCatalog(load_custom_tasks(file).task)
          /\ LoaderAtStart(file)
    /\ env = UserEnv
    /\ fs = [path \in {} |-> Missing]
    /\ show_batch_mode = FALSE
    /\ selected_tasks = {}
    /\ show_confirmation = None
    /\ app_state = Idle
    /\ progress = <<0, 1>>
    /\ procs = [i \in Slots |-> IdleProc]
    /\ polling = 0
    /\ started = 0
    /\ fn_in = <<>>
    /\ fn_out = <<>>
    /\ LogAtStart(NoLogScript)
    /\ gated_runs = <<>>

\* wincleaner-config.toml is changed on disk while the process runs
EditConfig(file) ==
    /\ config_file # file
    /\ config_file' = file
    /\ UNCHANGED << user, env, fs, engine, fn, logging, loading, gated_runs >>

NextCatalog == Render \/ \E file \in ConfigFiles : EditConfig(file)

SpecCatalog == InitCatalog /\ [][NextCatalog]_vars

(***************************************************************************)
(* The program in the hands of a user whose config file holds task T and   *)
(* is changed on disk while the program runs: a render after the change    *)
(* merges the catalog anew, while the selection keeps the names it has.    *)
(***************************************************************************)
EditUsers == { User({"T", "Go Module Cache"}, MaxRunsMany, FileWith(<<TaskT>>)) }

EditedFiles == {FileMalformed, FileWith(<<TaskT>>)}

InitEdit ==
    /\ user \in EditUsers
    /\ env \in Envs
    /\ config_file = load_custom_tasks(user.file).file
    /\ all_tasks = MergedCatalog(load_custom_tasks(user.file).task)
    /\ fs \in [TrackedPaths(env, all_tasks, user.names) -> Nodes]
    /\ show_batch_mode = FALSE
    /\ selected_tasks = {}
    /\ show_confirmation = None
    /\ app_state = Idle
    /\ progress = <<0, 1>>
    /\ procs = [i \in Slots |-> IdleProc]
    /\ polling = 0
    /\ started = 0
    /\ fn_in = <<>>
    /\ fn_out = <<>>
    /\ LogAtStart(NoLogScript)
    /\ gated_runs = <<>>
    /\ LoaderAtStart(user.file)

NextEdit ==
    \/ Render
    \/ ToggleBatchMode
    \/ \E name \in user.names : ToggleTask(name)
    \/ \E name \in user.names : TaskCardClick(name)
    \/ ConfirmClick
    \/ CancelClick
    \/ \E order \in Orders(selected_tasks) : BatchClick(order)
    \/ \E i \in Slots : Poll(i)
    \/ \E i \in Slots : Exit(i)
    \/ \E file \in EditedFiles : EditConfig(file)

SpecEdit == InitEdit /\ [][NextEdit]_vars

(***************************************************************************)
(* Properties.                                                             *)
(***************************************************************************)
Range(seq) == { seq[k] : k \in DOMAIN seq }

\* the three conditions of the safety filter, stated on a command line
RefusalCondition(c) ==
    /\ Contains(c, "rmdir") \/ Contains(c, "del")
    /\ \/ Contains(c, "C:\\Windows")
       \/ Contains(c, "C:\\Program Files")
       \/ Contains(c, "C:\\Program Files (x86)")
    /\ ~Contains(c, "\\Temp\\")

\* C1: the safety filter refuses an expanded command if and only if it
\* contains rmdir or del, contains one of the three protected paths and does
\* not contain \Temp\; the decision is the same for every order of the
\* command's parts and for every dangerous flag and path_check of the task.
C1_FilterRefusesIff ==
    (fn_in # <<>> /\ fn_out # <<>>) =>
        LET parts == Range(fn_in[1].parts)
            refused == IsSome(fn_out[1])
        IN  /\ refused <=> RefusalCondition(fn_in[1].task.command)
            /\ refused <=> /\ parts \cap DeleteChunks # {}
                           /\ parts \cap ProtectedChunks # {}
                           /\ parts \cap TempChunks = {}

\* a refused command whose protected path comes before its rmdir, of a task
\* that is not dangerous and has no path_check
C1_Witness ==
    /\ fn_in # <<>>
    /\ fn_out # <<>>
    /\ IsSome(fn_out[1])
    /\ fn_in[1].parts = << "C:\\Windows\\x ", "rmdir /s /q " >>
    /\ ~fn_in[1].task.dangerous
    /\ fn_in[1].task.path_check = None

\* C2: when the filter vetoes the command of an invocation of
\* run_clean_task_impl, the invocation returns an error, spawns no
\* subprocess, and the last message it logged before returning records the
\* refusal; a single-task run of it ends in Error.
C2_VetoReturnsErrorWithoutSpawn ==
    \A i \in Slots :
        LET p == procs[i]
        IN  /\ (/\ p.pc \in {"await", "woken", "ret"}
                /\ p.expanded_command # ""
                /\ RefusalCondition(p.expanded_command)) =>
                    /\ p.pc = "ret"
                    /\ p.spawns = 0
                    /\ Event("spawn", p.task.name) \notin Range(p.events)
                    /\ IsSome(p.result)
                    /\ ~Unwrap(p.result).ok
                    /\ StartsWith(Unwrap(p.result).msg,
                                  "attempt to clean a protected system directory: ")
                    /\ p.logged[Len(p.logged)] = "safety block: " \o Unwrap(p.result).msg
            /\ (/\ p.pc = "done"
                /\ p.kind = "single"
                /\ p.expanded_command # ""
                /\ RefusalCondition(p.expanded_command)) =>
                    /\ p.spawns = 0
                    /\ p.writes[Len(p.writes)].tag = "Error"

\* the executor has returned from the vetoed command of task T (a command
\* under C:\Windows, no path_check)
C2_Witness ==
    \E i \in Slots :
        /\ procs[i].pc = "ret"
        /\ procs[i].task.name = "T"
        /\ procs[i].expanded_command = "rmdir /s /q C:\\Windows\\System32"
        /\ procs[i].spawns = 0

\* C3: an invocation for a path-gated task spawns a subprocess only if its
\* pre-flight found the path to exist and not to be a directory whose
\* iterator yields no entry; on a missing path it returns the PathMissing
\* error, on such a directory the AlreadyEmpty error, both without a
\* subprocess, and a batch counts the task as failed.
C3_PathGate ==
    \A i \in Slots :
        LET p == procs[i]
            path == expand_environment_variables(Unwrap(p.task.path_check), env)
        IN  /\ (p.pc \in {"filter", "await", "woken", "ret"} /\ IsSome(p.seen)) =>
                 /\ p.spawns > 0 => Unwrap(p.seen).kind \notin {"missing", "dir_empty"}
                 /\ Unwrap(p.seen).kind = "missing" =>
                       /\ p.pc = "ret"
                       /\ p.result = Some(Err(PathMissingMsg(path)))
                 /\ Unwrap(p.seen).kind = "dir_empty" =>
                       /\ p.pc = "ret"
                       /\ p.result = Some(Err(DirEmptyMsg(path)))
            /\ \A k \in DOMAIN p.outcomes :
                 LET o == p.outcomes[k]
                 IN  (IsSome(o.seen) /\ Unwrap(o.seen).kind \in {"missing", "dir_empty"}) =>
                         /\ ~o.result.ok
                         /\ (o.name \o ": " \o o.result.msg) \in Range(p.errors)
                         /\ p.failed_tasks =
                               Cardinality({ m \in DOMAIN p.outcomes :
                                               ~p.outcomes[m].result.ok })

\* a finished batch of two tasks that counted Gradle Cache, whose directory
\* was empty, as failed
C3_Witness ==
    \E i \in Slots :
        /\ procs[i].pc = "done"
        /\ procs[i].kind = "batch"
        /\ Len(procs[i].outcomes) = 2
        /\ \E k \in DOMAIN procs[i].outcomes :
              /\ procs[i].outcomes[k].name = "Gradle Cache"
              /\ procs[i].outcomes[k].seen = Some(EmptyDir)
              /\ ~procs[i].outcomes[k].result.ok
        /\ procs[i].failed_tasks >= 1

Last(seq) == seq[Len(seq)]

\* the batch loops that have published their terminal value
FinishedBatches == { i \in Slots : procs[i].kind = "batch" /\ procs[i].pc = "done" }

\* the single-task runs that have published their terminal value
FinishedRuns == { i \in Slots : procs[i].kind = "single" /\ procs[i].pc = "done" }

Calls(p, name) == { k \in DOMAIN p.events : p.events[k] = Event("call", name) }

\* the executor is called at most once per name, and a finished batch has
\* called it exactly once for every selected name its catalog resolves
C4_OncePerName ==
    \A i \in Slots :
        LET p == procs[i]
        IN  p.kind = "batch" =>
              /\ \A name \in Range(p.order) : Cardinality(Calls(p, name)) <= 1
              /\ p.pc = "done" =>
                    \A name \in Range(p.order) :
                        IsSome(Find(p.all_tasks_clone, name)) =>
                            Cardinality(Calls(p, name)) = 1

\* C4: no executor error aborts a batch: whatever the per-task outcomes, the
\* loop calls the executor exactly once for every selected name that
\* resolves, and every batch eventually builds its stats and publishes a
\* terminal state.
C4_BatchCompletes ==
    /\ []C4_OncePerName
    /\ \A i \in Slots :
          (procs[i].kind = "batch")
              ~> (/\ procs[i].kind = "batch"
                  /\ procs[i].pc = "done"
                  /\ IsSome(procs[i].stats)
                  /\ Last(procs[i].writes).tag \in {"Success", "SuccessWithStats"})

\* a finished batch whose first task failed and whose second task was run
C4_Witness ==
    \E i \in FinishedBatches :
        /\ Len(procs[i].outcomes) = 2
        /\ ~procs[i].outcomes[1].result.ok
        /\ Calls(procs[i], procs[i].order[2]) # {}

RECURSIVE ErrorEntries(_)
\* one entry per failed outcome, in the order of the outcomes
ErrorEntries(outcomes) ==
    IF outcomes = <<>> THEN <<>>
    ELSE (IF Head(outcomes).result.ok THEN <<>>
          ELSE << Head(outcomes).name \o ": " \o Head(outcomes).result.msg >>)
             \o ErrorEntries(Tail(outcomes))

Succeeded(p) == { k \in DOMAIN p.outcomes : p.outcomes[k].result.ok }

Failed(p) == { k \in DOMAIN p.outcomes : ~p.outcomes[k].result.ok }

\* C5: the stats of a finished batch: total_tasks is the size of the
\* selection, successful_tasks the number of Ok results, failed_tasks the
\* number of errors, errors one "<task name>: <message>" per failed task in
\* execution order.
C5_StatsCount ==
    \A i \in FinishedBatches :
        LET p == procs[i]
            stats == Unwrap(p.stats)
        IN  /\ stats.total_tasks = Len(p.order)
            /\ stats.successful_tasks = Cardinality(Succeeded(p))
            /\ stats.failed_tasks = Cardinality(Failed(p))
            /\ stats.errors = ErrorEntries(p.outcomes)
            /\ Len(stats.errors) = stats.failed_tasks

\* a finished batch of three tasks of which only the middle one failed
C5_Witness ==
    \E i \in FinishedBatches :
        /\ Len(procs[i].order) = 3
        /\ Failed(procs[i]) = {2}
        /\ Unwrap(procs[i].stats).total_tasks = 3
        /\ Unwrap(procs[i].stats).successful_tasks = 2
        /\ Unwrap(procs[i].stats).failed_tasks = 1
        /\ Len(Unwrap(procs[i].stats).errors) = 1

\* C6: the last value a batch writes is SuccessWithStats(stats) if and only
\* if a task failed and Success otherwise; every value it writes before is
\* Running, and the last is never Error or Running.
C6_BatchTerminal ==
    \A i \in FinishedBatches :
        LET p == procs[i]
        IN  /\ Failed(p) # {} <=> Last(p.writes).tag = "SuccessWithStats"
            /\ Failed(p) = {} <=> Last(p.writes).tag = "Success"
            /\ Last(p.writes).tag = "SuccessWithStats" =>
                  Last(p.writes).stats = Unwrap(p.stats)
            /\ \A k \in 1..(Len(p.writes) - 1) : p.writes[k].tag = "Running"

\* a finished batch with a failed task, and SuccessWithStats in the slot
C6_Witness ==
    \E i \in FinishedBatches :
        /\ Failed(procs[i]) # {}
        /\ Succeeded(procs[i]) # {}
        /\ app_state.tag = "SuccessWithStats"
        /\ app_state = Last(procs[i].writes)

\* the steps of one task of a batch, in their order
Rank(ev) ==
    CASE ev = "running" -> 1
      [] ev = "before" -> 2
      [] ev = "call" -> 3
      [] ev = "spawn" -> 4
      [] ev = "exit" -> 5
      [] ev = "return" -> 6
      [] ev = "after" -> 7

IsRunningEvent(e) == e.ev = "running"

\* C7: within one batch the tasks are processed one after another: the
\* steps of a task (Running, measurement before, executor run with its
\* subprocess, measurement after) come in this order, the steps of the next
\* task begin only after the executor has returned, and the tasks follow
\* the iteration order of the selection.
C7_Sequential ==
    \A i \in Slots :
        LET p == procs[i]
            runs == SelectSeq(p.events, IsRunningEvent)
        IN  p.kind = "batch" =>
              /\ \A k \in 1..(Len(p.events) - 1) :
                    IF p.events[k].name = p.events[k + 1].name
                    THEN Rank(p.events[k].ev) < Rank(p.events[k + 1].ev)
                    ELSE /\ p.events[k].ev \in {"return", "after"}
                         /\ p.events[k + 1].ev = "running"
              /\ \A k \in DOMAIN runs : runs[k].name = p.order[k]
              /\ \A k \in DOMAIN p.events :
                    p.events[k].ev = "spawn" =>
                        \A m \in (k + 1)..Len(p.events) :
                            p.events[m].ev = "running" =>
                                \E x \in (k + 1)..(m - 1) : p.events[x].ev = "return"

\* a batch that has begun its second task after the subprocess of its first
\* one ended
C7_Witness ==
    \E i \in Slots :
        /\ procs[i].kind = "batch"
        /\ Len(SelectSeq(procs[i].events, IsRunningEvent)) = 2
        /\ \E k \in DOMAIN procs[i].events : procs[i].events[k].ev = "exit"
        /\ procs[i].pc = "await"

\* the invocations that have written Running and not yet their terminal value
InProgress == { i \in Slots : procs[i].pc \notin {"idle", "done"} /\ procs[i].writes # <<>> }

\* C8: new work is started only after app_state has left Running, so at most
\* one invocation of run_clean_task or of the batch loop is in progress
\* (writing to app_state, running a subprocess) at a time.
C8_OneInvocationAtATime ==
    /\ Cardinality(InProgress) <= 1
    /\ Cardinality({ i \in Slots : procs[i].pc = "await" }) <= 1

\* C9: a single-task run writes to app_state exactly twice: Running first,
\* then Success if the executor returned Ok, Error with the executor's
\* message if it returned an error; it writes no Running after that.
C9_SingleRunWrites ==
    \A i \in Slots :
        LET p == procs[i]
        IN  p.kind = "single" =>
              /\ Len(p.writes) <= 2
              /\ p.pc \notin {"spawned", "done"} =>
                    Len(p.writes) = 1 /\ p.writes[1].tag = "Running"
              /\ p.pc = "done" =>
                    /\ Len(p.writes) = 2
                    /\ p.writes[1].tag = "Running"
                    /\ IF Unwrap(p.result).ok
                       THEN p.writes[2].tag = "Success"
                       ELSE /\ p.writes[2].tag = "Error"
                            /\ p.writes[2].msg = Unwrap(p.result).msg

\* a finished single-task run whose cmd failed: Error with the classified
\* message is in the slot
C9_Witness ==
    \E i \in FinishedRuns :
        /\ procs[i].spawns = 1
        /\ ~Unwrap(procs[i].result).ok
        /\ app_state.tag = "Error"
        /\ app_state.msg = Unwrap(procs[i].result).msg
        /\ StartsWith(app_state.msg, "insufficient permission: ")

IsTerminal(state) == state.tag \in {"Success", "SuccessWithStats", "Error"}

\* C10: a terminal value in app_state does not change until a new invocation
\* writes Running: the value that follows a terminal value is a Running value.
C10_TerminalThenRunning ==
    [][(IsTerminal(app_state) /\ app_state' # app_state) => app_state'.tag = "Running"]_vars

Min(a, b) == IF a <= b THEN a ELSE b

\* C11: the ring never holds more than MAX_LOGS entries, and after N calls
\* have pushed their entry it holds exactly the last min(N, MAX_LOGS) of them,
\* in the order they were pushed (so a push on a full ring drops the oldest
\* entry and no other).
C11_RingIsLastEntries ==
    LET N == Len(log_calls)
    IN  /\ Len(LOG_RING) <= MAX_LOGS
        /\ LOG_RING = SubSeq(log_calls, N - Min(N, MAX_LOGS) + 1, N)

\* a push on a full ring has happened
C11_Witness ==
    /\ Len(log_calls) > MAX_LOGS
    /\ Len(LOG_RING) = MAX_LOGS
    /\ LOG_RING[1] = log_calls[Len(log_calls) - MAX_LOGS + 1]

LogReturned == Len(log_calls) - Cardinality({ t \in DOMAIN loggers : loggers[t].pc = "pushed" })

\* C13: once 100 or more calls of log have returned, the log file holds exactly
\* 100 lines.
C13_HundredLines ==
    (LogReturned >= MAX_LOGS /\ mutex = 0) => Lines(Unwrap(log_file)) = MAX_LOGS

\* the part of the catalog that came from the config file
CustomPart == SubSeq(all_tasks, Len(tasks) + 1, Len(all_tasks))

\* C14: every task of the catalog that was loaded from the config file has
\* category Custom, whatever category the file gives it, and no built-in task
\* has category Custom.
C14_LoadedAreCustom ==
    /\ \A k \in DOMAIN CustomPart : CustomPart[k].category = "Custom"
    /\ \A k \in DOMAIN tasks : all_tasks[k].category # "Custom"

\* C15: the merged task list never changes after startup, whatever is
\* rendered later and whatever happens to the config file.
C15_CatalogImmutable == all_tasks = startup_tasks

RECURSIVE UpperLoop(_, _)
\* s with the k-th and the later letters of the alphabet put in upper case
UpperLoop(s, k) ==
    IF k > 26 THEN s
    ELSE CHOOSE out \in
             { UpperLoop(r, k + 1) :
                 r \in { Replace(s, SubSeq("abcdefghijklmnopqrstuvwxyz", k, k),
                                 SubSeq("ABCDEFGHIJKLMNOPQRSTUVWXYZ", k, k)) } } :
             TRUE

ToUpper(s) == UpperLoop(s, 1)

Placeholder(k) == "%" \o env_vars[k] \o "%"

\* a chunk that is a supported placeholder written in any letter case
IsPlaceholder(chunk) == \E k \in DOMAIN env_vars : ToUpper(chunk) = Placeholder(k)

NameOf(chunk) == env_vars[CHOOSE k \in DOMAIN env_vars : ToUpper(chunk) = Placeholder(k)]

\* every "%" of the input belongs to a placeholder
WellFormed(parts) == \A k \in DOMAIN parts : IsPlaceholder(parts[k]) \/ ~Contains(parts[k], "%")

\* the placeholders of the input are written in upper case
UpperCased(parts) == \A k \in DOMAIN parts : IsPlaceholder(parts[k]) => parts[k] = ToUpper(parts[k])

\* no value of the environment holds a "%"
PlainValues(e) == \A n \in DOMAIN e : ~Contains(e[n], "%")

\* the input with each placeholder replaced, once, by the value of its
\* variable (nothing when the variable is not set) and all else kept
OnePass(parts, e) ==
    Join([k \in DOMAIN parts |->
             IF IsPlaceholder(parts[k]) THEN EnvVar(e, NameOf(parts[k])) ELSE parts[k]])

Applied == fn_out # <<>>

\* C17: a supported placeholder is replaced by the value of its variable in
\* whatever letter case it is written (%LocalAppData% as %LOCALAPPDATA%), and
\* by the empty string when the variable is not set.
C17_CaseInsensitive ==
    (Applied /\ WellFormed(fn_in[1].parts) /\ PlainValues(env))
        => fn_out[1] = OnePass(fn_in[1].parts, env)

\* C18: the text a replacement brings in is not scanned again: a placeholder
\* token inside a variable's value reaches the output as it is.
C18_OnePass ==
    (Applied /\ WellFormed(fn_in[1].parts) /\ UpperCased(fn_in[1].parts))
        => fn_out[1] = OnePass(fn_in[1].parts, env)

\* C19: whatever the input and the environment, the result holds no
\* placeholder of a supported variable.
C19_NoPlaceholderLeft ==
    Applied => \A k \in DOMAIN env_vars : ~Contains(fn_out[1], Placeholder(k))

\* the tasks whose measurements count: path-gated, returned Ok, both sizes
\* known, the size before above the size after
Counts(o) ==
    /\ o.gated
    /\ o.result.ok
    /\ IsSome(o.before)
    /\ IsSome(o.after)
    /\ Unwrap(o.before) > Unwrap(o.after)

GatedPath(name) ==
    expand_environment_variables(Unwrap(Unwrap(Find(all_tasks, name)).path_check), env)

\* C21: when a path-gated task is run twice in a row, the first run returned
\* Ok and left its path removed (or emptied), and the second run found the
\* path as the first left it, the second run returns the path-missing or the
\* directory-empty error: the two runs are never both Ok.
C21_SecondRunSkips ==
    \A k \in 1..(Len(gated_runs) - 1) :
        LET first == gated_runs[k]
            second == gated_runs[k + 1]
        IN  ( /\ first.name = second.name
              /\ first.result.ok
              /\ first.left \in {Missing, EmptyDir}
              /\ second.seen = first.left )
            => /\ ~second.result.ok
               /\ second.result.msg \in { PathMissingMsg(GatedPath(second.name)),
                                          DirEmptyMsg(GatedPath(second.name)) }

\* the first run's cmd ran on a full directory, exited with success and
\* removed it; the second run found it missing and returned the error
C21_Witness ==
    /\ Len(gated_runs) = 2
    /\ gated_runs[1].seen = FullDir(MaxSize)
    /\ gated_runs[1].result.ok
    /\ gated_runs[1].left = Missing
    /\ gated_runs[2].seen = Missing
    /\ gated_runs[2].result = Err(PathMissingMsg(GatedPath(gated_runs[2].name)))

\* an entry of the log that names the task and carries the outcome: the
\* success line for Ok, the executor's message for an error
RecordsOutcome(entry, name, result) ==
    /\ Contains(entry, name)
    /\ IF result.ok THEN Contains(entry, "task succeeded") ELSE Contains(entry, result.msg)

\* C22: every outcome of the executor, of a single run and of each task of a
\* batch, has an entry in the log that holds the task's name and the outcome
\* message.
C22_OutcomeLogged ==
    \A i \in Slots :
        LET p == procs[i]
        IN  /\ (p.kind = "single" /\ p.pc = "done") =>
                  \E m \in DOMAIN p.logged :
                      RecordsOutcome(p.logged[m], p.task.name, Unwrap(p.result))
            /\ p.kind = "batch" =>
                  \A k \in DOMAIN p.outcomes :
                      \E m \in DOMAIN p.logged :
                          RecordsOutcome(p.logged[m], p.outcomes[k].name, p.outcomes[k].result)

\* C23: a cmd that exits with success gives Ok whatever its stderr; for any
\* other exit the first of these decides the error: stderr holds the
\* access-denied text, else the file-not-found text, else the in-use text,
\* else the generic message, which carries the stdout when it is not empty
\* and the stderr alone when it is.
C23_ClassificationOrder ==
    Applied =>
        LET in == fn_in[1]
            has(text) == \E k \in DOMAIN in.parts : in.parts[k] = text
            r == fn_out[1]
        IN  IF in.success THEN r = Ok
            ELSE /\ ~r.ok
                 /\ IF has(ZhAccessDenied) THEN StartsWith(r.msg, "insufficient permission: ")
                    ELSE IF has(ZhFileNotFound)
                    THEN StartsWith(r.msg, "file or directory does not exist: ")
                    ELSE IF has(ZhInUse) THEN StartsWith(r.msg, "file is in use: ")
                    ELSE /\ StartsWith(r.msg, "execution failed: ")
                         /\ Contains(r.msg, "details: " \o Trim(in.stdout)) <=> in.stdout # ""
                 /\ Contains(r.msg, Trim(Join(in.parts)))

\* a failed cmd whose stderr holds the file-not-found text before the
\* access-denied text: the access-denied rule decided
C23_Witness ==
    /\ Applied
    /\ ~fn_in[1].success
    /\ fn_in[1].parts = <<ZhFileNotFound, ZhAccessDenied>>
    /\ StartsWith(fn_out[1].msg, "insufficient permission: ")

OfficeUpdates == "Office Updates"

\* the three errors a run of Office Updates can end in
OfficeErrors ==
    { PathMissingMsg(GatedPath(OfficeUpdates)), DirEmptyMsg(GatedPath(OfficeUpdates)),
      SafetyRefusedMsg("C:\\Program Files") }

\* C24: a run of the built-in task Office Updates never spawns a subprocess
\* and never returns Ok: whatever the file system holds, it ends in the
\* path-missing error, the directory-empty error or the safety refusal.
C24_OfficeUpdatesNeverRuns ==
    /\ \A i \in Slots :
          LET p == procs[i]
          IN  p.task.name = OfficeUpdates =>
                /\ p.spawns = 0
                /\ p.pc \notin {"await", "woken"}
                /\ Event("spawn", OfficeUpdates) \notin Range(p.events)
                /\ (p.pc \in {"ret", "done"} /\ IsSome(p.result)) =>
                      /\ ~Unwrap(p.result).ok
                      /\ Unwrap(p.result).msg \in OfficeErrors
    /\ \A k \in DOMAIN gated_runs :
          gated_runs[k].name = OfficeUpdates =>
              ~gated_runs[k].result.ok /\ gated_runs[k].result.msg \in OfficeErrors

\* Office Updates was run on a directory with files, on a directory that
\* cannot be read and on a missing path: refused, refused, skipped
C24_Witness ==
    /\ Len(gated_runs) = 2
    /\ gated_runs[1].name = OfficeUpdates
    /\ gated_runs[1].seen \in {FullDir(MaxSize), UnreadableDir}
    /\ gated_runs[1].result.msg = SafetyRefusedMsg("C:\\Program Files")
    /\ gated_runs[2].name = OfficeUpdates

\* C25: in a batch, a path-gated task that returned Ok and whose directory
\* is gone when the loop measures it again adds nothing to the freed-space
\* total: the measurement of a missing path is None, whatever the size before.
C25_RemovedDirectoryAddsNothing ==
    \A i \in Slots :
        LET p == procs[i]
            o == p.outcomes
        IN  p.kind = "batch" =>
              \A k \in DOMAIN o :
                  (o[k].gated /\ o[k].result.ok /\ o[k].left = Missing) =>
                      /\ o[k].after = None
                      /\ o[k].freed = IF k = 1 THEN 0 ELSE o[k - 1].freed

\* a batch task measured MaxSize bytes, its cmd succeeded and removed the
\* directory: the batch finished and its stats carry no freed space
C25_Witness ==
    \E i \in Slots :
        /\ procs[i].kind = "batch"
        /\ procs[i].pc = "done"
        /\ \E k \in DOMAIN procs[i].outcomes :
              LET o == procs[i].outcomes[k]
              IN  /\ o.gated
                  /\ o.result.ok
                  /\ o.before = Some(MaxSize)
                  /\ o.left = Missing
        /\ Unwrap(procs[i].stats).total_space_freed = None

\* the names of the selection that the loop has taken and its catalog resolves
Resolved(p) ==
    { k \in 1..(Len(p.order) - Len(p.remaining)) : IsSome(Find(p.all_tasks_clone, p.order[k])) }

\* the loop is between the resolution of a name and the record of its result
InBody(p) == p.pc \in {"impl", "filter", "await", "woken", "ret"}

\* the shared progress signal shows the fraction a / b
Shows(a, b) == progress[1] * b = a * progress[2]

BatchCounters(i) ==
    LET p == procs[i]
    IN  p.kind = "batch" =>
          /\ p.successful_tasks + p.failed_tasks = p.completed
          /\ p.completed = Cardinality(Resolved(p)) - (IF InBody(p) THEN 1 ELSE 0)
          /\ p.completed <= p.total
          /\ Len(p.errors) = p.failed_tasks
          /\ p.pc # "done" => Shows(p.completed, p.total)
          /\ (\E k \in DOMAIN p.order : ~IsSome(Find(p.all_tasks_clone, p.order[k]))) =>
                /\ p.completed < p.total
                /\ p.pc # "done" => ~Shows(p.total, p.total)
                /\ p.pc = "done" =>
                      Unwrap(p.stats).successful_tasks + Unwrap(p.stats).failed_tasks
                          < Unwrap(p.stats).total_tasks

\* while a batch runs its counter and the published progress never go down,
\* and a step of the batch that publishes the progress publishes completed /
\* total with completed one higher
BatchPublishes(i) ==
    (procs[i].kind = "batch" /\ procs[i].pc # "done" /\ procs'[i].kind = "batch") =>
        /\ procs'[i].completed >= procs[i].completed
        /\ progress'[1] * progress[2] >= progress[1] * progress'[2]
        /\ (progress' # progress /\ procs'[i] # procs[i]) =>
              /\ procs'[i].completed = procs[i].completed + 1
              /\ progress' = <<procs'[i].completed, procs[i].total>>

\* C26: at every point of a batch successful_tasks + failed_tasks = completed
\* = the selected names resolved so far <= total, errors has failed_tasks
\* entries, the published progress is completed / total and never goes
\* down; a selected name that the catalog lacks advances no counter, so
\* the final stats have successful_tasks + failed_tasks < total_tasks and the
\* progress never reaches 1.
C26_BatchCounters ==
    /\ [](\A i \in Slots : BatchCounters(i))
    /\ [][\A i \in Slots : BatchPublishes(i)]_vars

\* slot i is free before the step and holds a newly spawned async task after it
Spawns(i, kind) == procs[i] = IdleProc /\ procs'[i].kind = kind

\* a single run of a task that asks for confirmation starts only in the step
\* that confirms the popup shown for this task
SingleAfterConfirm(i) ==
    (Spawns(i, "single") /\ procs'[i].task.requires_confirmation) =>
        /\ show_confirmation = Some(procs'[i].task)
        /\ show_confirmation' = None

\* a step that takes the popup away starts its task, or nothing at all
PopupGoneRunsItsTaskOrNothing ==
    (IsSome(show_confirmation) /\ show_confirmation' = None) =>
        \/ procs' = procs
        \/ \E i \in Slots :
              /\ Spawns(i, "single")
              /\ procs'[i].task = Unwrap(show_confirmation)
              /\ \A j \in Slots \ {i} : procs'[j] = procs[j]

\* the batch starts over the whole selection, and its loop calls
\* run_clean_task_impl for every name the catalog resolves, whatever the
\* task's flags and whatever the popup shows, and never touches the popup
BatchAsksNothing(i) ==
    /\ Spawns(i, "batch") =>
          /\ Range(procs'[i].remaining) = selected_tasks
          /\ UNCHANGED show_confirmation
    /\ (procs[i].kind = "batch" /\ procs'[i] # procs[i]) =>
          /\ UNCHANGED show_confirmation
          /\ (procs[i].pc = "loop" /\ procs[i].remaining # <<>>) =>
                LET found == Find(procs[i].all_tasks_clone, Head(procs[i].remaining))
                IN  IsSome(found) =>
                       /\ procs'[i].pc = "impl"
                       /\ procs'[i].task = Unwrap(found)

\* C27: in single-task mode a task with requires_confirmation is run only by
\* the popup's confirm action (cancel or close runs nothing), while the batch
\* path runs every selected task with no confirmation step, tasks with
\* requires_confirmation or dangerous included.
C27_ConfirmationOnlyInSingleMode ==
    [][ /\ \A i \in Slots : SingleAfterConfirm(i) /\ BatchAsksNothing(i)
        /\ PopupGoneRunsItsTaskOrNothing ]_vars

\* a confirmed single run of a dangerous task next to a batch whose cmd for
\* the same task was spawned while no popup is shown
C27_Witness ==
    \E i, j \in Slots :
        /\ procs[i].kind = "single"
        /\ procs[i].task.requires_confirmation
        /\ procs[j].kind = "batch"
        /\ procs[j].task.requires_confirmation
        /\ procs[j].task.dangerous
        /\ procs[j].spawns > 0
        /\ show_confirmation = None

=============================================================================
